---- MODULE Spec2Model ----
(***************************************************************************)
(* Model of the accident tracking dashboard: the page (Index), the token   *)
(* gate (MapboxTokenInput) and the accident board (AccidentMap).           *)
(*                                                                         *)
(* Strings are sequences of one-character strings, so that trim(),         *)
(* toString() and parseInt() are computed rather than assumed.             *)
(***************************************************************************)
EXTENDS Integers, Sequences, FiniteSets, TLC

VARIABLES
    mapboxToken,           \* Index: useState<string>("")
    token,                 \* MapboxTokenInput: useState("")
    mounted,               \* AccidentMap is rendered by Index (map.current exists)
    accidents,             \* AccidentMap: useState<Accident[]>
    showAddDialog,         \* AccidentMap: useState(false)
    tempMarkerPosition,    \* AccidentMap: useState<{lat,lng} | null>(null)
    newAccident,           \* AccidentMap: useState({severity, description, injuries})
    now,                   \* the wall clock read by Date.now() / new Date()
    toasts,                \* number of toast.success notifications emitted
    addCalls,              \* number of invocations of handleAddAccident
    sourceFeatures,        \* features of the map's 'accidents' source (0: no source)
    clusterClickListeners, \* listeners registered for ('click', 'clusters')
    pointClickListeners    \* listeners registered for ('click', 'unclustered-point')

vars == <<mapboxToken, token, mounted, accidents, showAddDialog, tempMarkerPosition,
          newAccident, now, toasts, addCalls, sourceFeatures, clusterClickListeners,
          pointClickListeners>>

boardVars == <<accidents, showAddDialog, tempMarkerPosition, newAccident>>
mapVars == <<sourceFeatures, clusterClickListeners, pointClickListeners>>
gateVars == <<mapboxToken, token, mounted>>

-----------------------------------------------------------------------------
(* Bounds and input sets *)

MaxAdded == 2          \* submits explored in one session
MaxTicks == 1          \* clock advances explored in one session
StartTime == 100000000 \* clock reading (ms) when the session starts

\* tempMarkerPosition when no click is pending
Null == [null |-> TRUE]

\* e.target.value of the token input
TokenInputs == { <<>>, <<" ">>, <<"p">>, <<" ", "p", " ">> }

\* e.target.value of the description textarea
DescriptionInputs == { <<>>, <<" ">>, <<"a">> }

\* e.target.value of the injuries input
InjuryInputs == { <<>>, <<"1">> }

\* e.lngLat of a click on the map, in 1/10000 degree
ClickPoints == { [lat |-> 407128, lng |-> -740060], [lat |-> 407500, lng |-> -739900] }

Severities == {"minor", "moderate", "severe"}

\* values picked in the severity Select
SeverityInputs == {"minor", "severe"}

-----------------------------------------------------------------------------
(* String helpers: String.prototype.trim, Number.prototype.toString *)

IsSpace(c) == c = " "

RECURSIVE TrimStart(_)
TrimStart(s) ==
    IF s = <<>> THEN <<>>
    ELSE IF IsSpace(Head(s)) THEN TrimStart(Tail(s))
    ELSE s

RECURSIVE TrimEnd(_)
TrimEnd(s) ==
    IF s = <<>> THEN <<>>
    ELSE IF IsSpace(s[Len(s)]) THEN TrimEnd(SubSeq(s, 1, Len(s) - 1))
    ELSE s

Trim(s) == TrimEnd(TrimStart(s))

Digit(d) == CASE d = 0 -> "0" [] d = 1 -> "1" [] d = 2 -> "2" [] d = 3 -> "3"
              [] d = 4 -> "4" [] d = 5 -> "5" [] d = 6 -> "6" [] d = 7 -> "7"
              [] d = 8 -> "8" [] d = 9 -> "9"

RECURSIVE NumToString(_)
NumToString(n) ==
    IF n < 10 THEN <<Digit(n)>>
    ELSE Append(NumToString(n \div 10), Digit(n % 10))

-----------------------------------------------------------------------------
(* parseInt(text) || 0, as the injuries input's onChange computes it *)

IsDigit(c) == c \in {"0", "1", "2", "3", "4", "5", "6", "7", "8", "9"}

DigitVal(c) == CASE c = "0" -> 0 [] c = "1" -> 1 [] c = "2" -> 2 [] c = "3" -> 3
                 [] c = "4" -> 4 [] c = "5" -> 5 [] c = "6" -> 6 [] c = "7" -> 7
                 [] c = "8" -> 8 [] c = "9" -> 9

\* value of the longest prefix of digits of s, continuing from acc
RECURSIVE DigitsValue(_, _)
DigitsValue(s, acc) ==
    IF s = <<>> \/ ~IsDigit(Head(s)) THEN acc
    ELSE DigitsValue(Tail(s), acc * 10 + DigitVal(Head(s)))

\* parseInt: leading white space, an optional sign, then digits; NaN without a digit
ParseInt(s) ==
    LET t == TrimStart(s)
        signed == t # <<>> /\ Head(t) \in {"-", "+"}
        body == IF signed THEN Tail(t) ELSE t
    IN  IF body = <<>> \/ ~IsDigit(Head(body))
        THEN [nan |-> TRUE, value |-> 0]
        ELSE [nan |-> FALSE,
              value |-> IF signed /\ Head(t) = "-" THEN 0 - DigitsValue(body, 0)
                        ELSE DigitsValue(body, 0)]

\* parseInt(e.target.value) || 0
ParseIntOrZero(s) == IF ParseInt(s).nan THEN 0 ELSE ParseInt(s).value

-----------------------------------------------------------------------------
(* AccidentMap state *)

DefaultNewAccident == [severity |-> "minor", description |-> <<>>, injuries |-> 0]

\* the sample accidents of useState<Accident[]>, evaluated at clock reading t;
\* coordinates in 1/10000 degree, each sample description kept as one chunk of text
InitialAccidents(t) ==
    << [id |-> <<"1">>, latitude |-> 407128, longitude |-> -740060, timestamp |-> t,
        severity |-> "moderate", description |-> <<"Rear-end collision at intersection">>,
        injuries |-> 2],
       [id |-> <<"2">>, latitude |-> 407130, longitude |-> -740058,
        timestamp |-> t - 3600000,
        severity |-> "minor", description |-> <<"Fender bender">>, injuries |-> 0],
       [id |-> <<"3">>, latitude |-> 407125, longitude |-> -740065,
        timestamp |-> t - 7200000,
        severity |-> "severe", description |-> <<"Multi-vehicle accident">>,
        injuries |-> 4],
       [id |-> <<"4">>, latitude |-> 407140, longitude |-> -740070,
        timestamp |-> t - 86400000,
        severity |-> "minor", description |-> <<"Side-swipe accident">>,
        injuries |-> 1] >>

Init ==
    /\ mapboxToken = <<>>
    /\ token = <<>>
    /\ mounted = FALSE
    /\ accidents = <<>>
    /\ showAddDialog = FALSE
    /\ tempMarkerPosition = Null
    /\ newAccident = DefaultNewAccident
    /\ now = StartTime
    /\ toasts = 0
    /\ addCalls = 0
    /\ sourceFeatures = 0
    /\ clusterClickListeners = 0
    /\ pointClickListeners = 0

\* the clock advances
Tick ==
    /\ now < StartTime + MaxTicks
    /\ now' = now + 1
    /\ UNCHANGED <<gateVars, boardVars, mapVars, toasts, addCalls>>

-----------------------------------------------------------------------------
(* Token gate and page *)

\* MapboxTokenInput: onChange={(e) => setToken(e.target.value)}
SetToken(v) ==
    /\ ~mounted
    /\ token' = v
    /\ UNCHANGED <<mapboxToken, mounted, boardVars, mapVars, now, toasts, addCalls>>

\* handleSubmit: if (token.trim())
SubmitsToken(t) == Trim(t) # <<>>

\* mutant: the token is emitted as typed
SubmittedToken_Untrimmed(t) == t

\* handleSubmit: onTokenSubmit(token.trim())
SubmittedToken(t) == Trim(t)

\* Index: if (!mapboxToken) return <MapboxTokenInput .../>
ShowsGate(t) == t = <<>>

\* AccidentMap is rendered for the first time with token t: the useState
\* initialisers, then the two effects in order
MountBoard(t) ==
    /\ mounted' = TRUE
    /\ accidents' = InitialAccidents(now)
    /\ showAddDialog' = FALSE
    /\ tempMarkerPosition' = Null
    /\ newAccident' = DefaultNewAccident
    /\ addCalls' = 0
    /\ IF t = <<>>
       THEN \* both effects return early: no map
            /\ toasts' = toasts
            /\ sourceFeatures' = 0
            /\ clusterClickListeners' = 0
            /\ pointClickListeners' = 0
       ELSE \* map created, "Map loaded!" toast, then the marker effect
            /\ toasts' = toasts + 1
            /\ sourceFeatures' = Len(accidents')
            /\ clusterClickListeners' = IF Len(accidents') = 0 THEN 0 ELSE 1
            /\ pointClickListeners' = IF Len(accidents') = 0 THEN 0 ELSE 1

\* the gate's form is submitted
handleSubmit ==
    /\ ~mounted
    /\ IF SubmitsToken(token)
       THEN /\ mapboxToken' = SubmittedToken(token)
            /\ IF ShowsGate(mapboxToken')
               THEN UNCHANGED <<token, mounted, boardVars, mapVars, toasts, addCalls>>
               ELSE token' = <<>> /\ MountBoard(mapboxToken')
       ELSE UNCHANGED <<mapboxToken, token, mounted, boardVars, mapVars, toasts, addCalls>>
    /\ UNCHANGED now

-----------------------------------------------------------------------------
(* Accident board *)

\* map.current.on('click', (e) => ...): fires for every click on the map canvas
MapClickListener(p) ==
    /\ tempMarkerPosition' = p
    /\ showAddDialog' = TRUE

\* mutant: the click itself stores a record
MapClick_AddsRecord(p) ==
    /\ mounted
    /\ MapClickListener(p)
    /\ accidents' = Append(accidents,
                           [id |-> NumToString(now), latitude |-> p.lat,
                            longitude |-> p.lng, timestamp |-> now,
                            severity |-> newAccident.severity,
                            description |-> newAccident.description,
                            injuries |-> newAccident.injuries])
    /\ UNCHANGED <<gateVars, newAccident, now, toasts, addCalls,
                   sourceFeatures, clusterClickListeners, pointClickListeners>>

\* a click on the map away from any rendered feature
MapClick(p) ==
    /\ mounted
    /\ MapClickListener(p)
    /\ UNCHANGED <<gateVars, accidents, newAccident, now, toasts, addCalls,
                   sourceFeatures, clusterClickListeners, pointClickListeners>>

\* a click on a cluster circle: the map's click listener, then every
\* ('click', 'clusters') listener (easeTo changes only the view)
ClusterClick(p) ==
    /\ mounted
    /\ sourceFeatures >= 2
    /\ clusterClickListeners >= 1
    /\ MapClickListener(p)
    /\ UNCHANGED <<gateVars, accidents, newAccident, now, toasts, addCalls,
                   sourceFeatures, clusterClickListeners, pointClickListeners>>

\* a click on an individual point: the map's click listener, then every
\* ('click', 'unclustered-point') listener adds one popup (a popup is view only)
PointClick(p) ==
    /\ mounted
    /\ sourceFeatures >= 1
    /\ pointClickListeners >= 1
    /\ MapClickListener(p)
    /\ UNCHANGED <<gateVars, accidents, newAccident, now, toasts, addCalls,
                   sourceFeatures, clusterClickListeners, pointClickListeners>>

\* popups one click on an individual point adds to the map: each registered
\* ('click', 'unclustered-point') listener builds its own Popup and adds it
PopupsPerPointClick == pointClickListeners

\* Select onValueChange
SetSeverity(v) ==
    /\ mounted /\ showAddDialog
    /\ newAccident' = [newAccident EXCEPT !.severity = v]
    /\ UNCHANGED <<gateVars, accidents, showAddDialog, tempMarkerPosition, mapVars,
                   now, toasts, addCalls>>

\* injuries Input onChange
SetInjuries(text) ==
    /\ mounted /\ showAddDialog
    /\ newAccident' = [newAccident EXCEPT !.injuries = ParseIntOrZero(text)]
    /\ UNCHANGED <<gateVars, accidents, showAddDialog, tempMarkerPosition, mapVars,
                   now, toasts, addCalls>>

\* description Textarea onChange
SetDescription(text) ==
    /\ mounted /\ showAddDialog
    /\ newAccident' = [newAccident EXCEPT !.description = text]
    /\ UNCHANGED <<gateVars, accidents, showAddDialog, tempMarkerPosition, mapVars,
                   now, toasts, addCalls>>

\* Cancel button: onClick={() => setShowAddDialog(false)}
CancelClick ==
    /\ mounted /\ showAddDialog
    /\ showAddDialog' = FALSE
    /\ UNCHANGED <<gateVars, accidents, tempMarkerPosition, newAccident, mapVars,
                   now, toasts, addCalls>>

\* Dialog onOpenChange={setShowAddDialog}: the dialog asks to close
\* (Escape, overlay, close button); no trigger is rendered to ask it to open
DialogOpenChange(open) ==
    /\ mounted /\ showAddDialog
    /\ showAddDialog' = open
    /\ UNCHANGED <<gateVars, accidents, tempMarkerPosition, newAccident, mapVars,
                   now, toasts, addCalls>>

\* mutant: latitude and longitude taken in the map's [lng, lat] order
NewRecord_SwappedCoordinates ==
    [id |-> NumToString(now),
     latitude |-> tempMarkerPosition.lng,
     longitude |-> tempMarkerPosition.lat,
     timestamp |-> now,
     severity |-> newAccident.severity,
     description |-> newAccident.description,
     injuries |-> newAccident.injuries]

\* the record handleAddAccident constructs
NewRecord ==
    [id |-> NumToString(now),
     latitude |-> tempMarkerPosition.lat,
     longitude |-> tempMarkerPosition.lng,
     timestamp |-> now,
     severity |-> newAccident.severity,
     description |-> newAccident.description,
     injuries |-> newAccident.injuries]

\* the marker effect after the record list changed to list (map.current exists):
\* source and layers are replaced, the layer listeners are registered again
SyncMarkers(list) ==
    IF Len(list) = 0
    THEN UNCHANGED <<sourceFeatures, clusterClickListeners, pointClickListeners>>
    ELSE /\ sourceFeatures' = Len(list)
         /\ clusterClickListeners' = clusterClickListeners + 1
         /\ pointClickListeners' = pointClickListeners + 1

\* mutant: the draft form is not reset after a submit
handleAddAccident_KeepsDraft ==
    /\ addCalls' = addCalls + 1
    /\ IF tempMarkerPosition = Null
       THEN UNCHANGED <<boardVars, toasts, sourceFeatures, clusterClickListeners,
                        pointClickListeners>>
       ELSE /\ accidents' = Append(accidents, NewRecord)
            /\ showAddDialog' = FALSE
            /\ newAccident' = newAccident
            /\ tempMarkerPosition' = Null
            /\ toasts' = toasts + 1
            /\ SyncMarkers(accidents')
    /\ UNCHANGED <<gateVars, now>>

\* mutant: the dialog is closed before the pending click is tested
handleAddAccident_ClosesFirst ==
    /\ addCalls' = addCalls + 1
    /\ showAddDialog' = FALSE
    /\ IF tempMarkerPosition = Null
       THEN UNCHANGED <<accidents, tempMarkerPosition, newAccident, toasts,
                        sourceFeatures, clusterClickListeners, pointClickListeners>>
       ELSE /\ accidents' = Append(accidents, NewRecord)
            /\ newAccident' = DefaultNewAccident
            /\ tempMarkerPosition' = Null
            /\ toasts' = toasts + 1
            /\ SyncMarkers(accidents')
    /\ UNCHANGED <<gateVars, now>>

handleAddAccident ==
    /\ addCalls' = addCalls + 1
    /\ IF tempMarkerPosition = Null
       THEN UNCHANGED <<boardVars, toasts, sourceFeatures, clusterClickListeners,
                        pointClickListeners>>
       ELSE /\ accidents' = Append(accidents, NewRecord)
            /\ showAddDialog' = FALSE
            /\ newAccident' = DefaultNewAccident
            /\ tempMarkerPosition' = Null
            /\ toasts' = toasts + 1
            /\ SyncMarkers(accidents')
    /\ UNCHANGED <<gateVars, now>>

\* mutant: the button is disabled on the untrimmed description
RecordDisabled_Untrimmed == newAccident.description = <<>>

\* Record Accident button: disabled={!newAccident.description.trim()}
RecordDisabled == Trim(newAccident.description) = <<>>

RecordClick ==
    /\ mounted /\ showAddDialog
    /\ ~RecordDisabled
    /\ addCalls < MaxAdded
    /\ handleAddAccident

\* getStatistics, read at clock reading t
MsPerDay == 86400000
DayOf(t) == t \div MsPerDay

RECURSIVE Reduce(_, _)
Reduce(list, sum) ==
    IF list = <<>> THEN sum ELSE Reduce(Tail(list), sum + Head(list).injuries)

IsToday(a) == DayOf(a.timestamp) = DayOf(now)

\* mutant: every record that is not minor counts as severe
IsSevere_NotMinor(a) == a.severity # "minor"

IsSevere(a) == a.severity = "severe"

getStatistics ==
    [total |-> Len(accidents),
     todayCount |-> Len(SelectSeq(accidents, IsToday)),
     severeCount |-> Len(SelectSeq(accidents, IsSevere)),
     totalInjuries |-> Reduce(accidents, 0)]

-----------------------------------------------------------------------------

Next ==
    \/ Tick
    \/ \E v \in TokenInputs : SetToken(v)
    \/ handleSubmit
    \/ \E p \in ClickPoints : MapClick(p)
    \/ \E p \in ClickPoints : ClusterClick(p)
    \/ \E p \in ClickPoints : PointClick(p)
    \/ \E v \in SeverityInputs : SetSeverity(v)
    \/ \E text \in InjuryInputs : SetInjuries(text)
    \/ \E text \in DescriptionInputs : SetDescription(text)
    \/ CancelClick
    \/ DialogOpenChange(FALSE)
    \/ RecordClick

Spec == Init /\ [][Next]_vars

TypeOK ==
    /\ mounted \in BOOLEAN
    /\ showAddDialog \in BOOLEAN
    /\ tempMarkerPosition \in ClickPoints \cup {Null}
    /\ newAccident.severity \in Severities
    /\ \A i \in DOMAIN accidents : accidents[i].severity \in Severities

-----------------------------------------------------------------------------
(* handleAddAccident on its own: the handler is applied once to every        *)
(* component state, including those the rendered dialog never offers it     *)

DraftStates ==
    [severity : Severities, description : DescriptionInputs,
     injuries : {ParseIntOrZero(text) : text \in InjuryInputs}]

InitHandler ==
    /\ mapboxToken = <<"p">>
    /\ token = <<>>
    /\ mounted = TRUE
    /\ accidents = InitialAccidents(StartTime)
    /\ showAddDialog \in BOOLEAN
    /\ tempMarkerPosition \in ClickPoints \cup {Null}
    /\ newAccident \in DraftStates
    /\ now = StartTime
    /\ toasts = 1
    /\ addCalls = 0
    /\ sourceFeatures = 4
    /\ clusterClickListeners = 1
    /\ pointClickListeners = 1

NextHandler == addCalls = 0 /\ handleAddAccident

SpecHandler == InitHandler /\ [][NextHandler]_vars

-----------------------------------------------------------------------------
(* The board with every text the injuries input accepts: type="number"      *)
(* with min="0" still lets a signed or fractional number be typed, and      *)
(* reports text that is not a number as ""                                  *)

TypedInjuryInputs == { <<"-", "1">>, <<"1", ".", "5">> }

NextTyped ==
    \/ Next
    \/ \E text \in TypedInjuryInputs : SetInjuries(text)

SpecTyped == Init /\ [][NextTyped]_vars

-----------------------------------------------------------------------------
(* Properties *)

Last(list) == list[Len(list)]

\* C1: a submit with a pending click and a description that is non-empty after
\* trimming appends exactly one record: the list grows by one, the earlier
\* records are unchanged and in order, the new last record has the pending
\* click's coordinates and the draft's severity, description and injuries.
C1_SubmitAppendsOne ==
    [][(RecordClick /\ tempMarkerPosition # Null /\ Trim(newAccident.description) # <<>>)
        => /\ Len(accidents') = Len(accidents) + 1
           /\ SubSeq(accidents', 1, Len(accidents)) = accidents
           /\ Last(accidents').latitude = tempMarkerPosition.lat
           /\ Last(accidents').longitude = tempMarkerPosition.lng
           /\ Last(accidents').severity = newAccident.severity
           /\ Last(accidents').description = newAccident.description
           /\ Last(accidents').injuries = newAccident.injuries]_vars

\* two records were added from two different clicks, the second from an edited draft
C1_Witness ==
    /\ mounted /\ Len(accidents) = 6 /\ addCalls = 2
    /\ accidents[5].latitude # accidents[6].latitude
    /\ accidents[6].severity = "severe"
    /\ accidents[6].injuries = 1
    /\ accidents[6].description = <<"a">>

\* sum of the injuries of the first n records
RECURSIVE InjuriesOfFirst(_)
InjuriesOfFirst(n) ==
    IF n = 0 THEN 0 ELSE InjuriesOfFirst(n - 1) + accidents[n].injuries

\* C2: in every reachable state the statistics' total is the record-list length,
\* totalInjuries is the sum of the records' injuries and severeCount is the
\* number of records whose severity is 'severe'.
C2_StatisticsMatchList ==
    /\ getStatistics.total = Cardinality(DOMAIN accidents)
    /\ getStatistics.totalInjuries = InjuriesOfFirst(Len(accidents))
    /\ getStatistics.severeCount =
           Cardinality({i \in DOMAIN accidents : accidents[i].severity = "severe"})

\* two records, one of them severe and with an injury, were added to the samples
C2_Witness ==
    /\ mounted /\ addCalls = 2
    /\ getStatistics.total = 6
    /\ getStatistics.severeCount = 2
    /\ getStatistics.totalInjuries = 8

\* C3: neither the map click that opens the dialog nor cancelling the dialog
\* (Cancel button or the dialog's own close request) changes the record list.
C3_CancelKeepsList ==
    [][((\E p \in ClickPoints : MapClick(p)) \/ CancelClick \/ DialogOpenChange(FALSE))
        => accidents' = accidents]_vars

\* a dialog holding a submittable draft was cancelled after one record was added
C3_Witness ==
    /\ mounted /\ ~showAddDialog /\ tempMarkerPosition # Null
    /\ newAccident.description = <<"a">>
    /\ Len(accidents) = 5

\* C4: while the draft description trims to the empty string no step of the
\* board changes the record list, so no submit can add a record.
C4_BlankDescriptionRejected ==
    [][(mounted /\ Trim(newAccident.description) = <<>>) => accidents' = accidents]_vars

\* the dialog is open on a pending click with a whitespace-only description
C4_Witness ==
    /\ mounted /\ showAddDialog /\ tempMarkerPosition # Null
    /\ newAccident.description = <<" ">>
    /\ addCalls < MaxAdded

\* C5 (as claimed): Cancel clears the pending click and resets the draft to
\* its defaults.
C5_CancelDiscardsDraft ==
    [][CancelClick => (tempMarkerPosition' = Null /\ newAccident' = DefaultNewAccident)]_vars

\* C6 (as claimed): no two records of the list share an id.
C6_IdsUnique ==
    \A i, j \in DOMAIN accidents : i # j => accidents[i].id # accidents[j].id

\* C7 (as claimed): a click on a cluster or on an individual point changes
\* neither the record list, the dialog flag, the pending click nor the draft.
C7_FeatureClickReadOnly ==
    [][(\E p \in ClickPoints : ClusterClick(p) \/ PointClick(p))
        => UNCHANGED <<accidents, showAddDialog, tempMarkerPosition, newAccident>>]_vars

\* C8: after a successful submit the dialog is closed, the draft is at its
\* defaults and the pending click is null; the dialog opens only on a click on
\* the map and closes only on cancel or on a successful submit.
C8_SubmitResetsDialog ==
    [][/\ (RecordClick /\ tempMarkerPosition # Null)
            => /\ ~showAddDialog'
               /\ newAccident' = DefaultNewAccident
               /\ tempMarkerPosition' = Null
       /\ (~showAddDialog /\ showAddDialog')
            => \E p \in ClickPoints : MapClick(p) \/ ClusterClick(p) \/ PointClick(p)
       /\ (showAddDialog /\ ~showAddDialog')
            => \/ CancelClick
               \/ DialogOpenChange(FALSE)
               \/ (RecordClick /\ Len(accidents') = Len(accidents) + 1)]_vars

\* a record with a non-default draft was submitted and the dialog is back at rest
C8_Witness ==
    /\ mounted /\ addCalls = 1 /\ Len(accidents) = 5
    /\ Last(accidents).severity = "severe" /\ Last(accidents).injuries = 1
    /\ ~showAddDialog /\ tempMarkerPosition = Null /\ newAccident = DefaultNewAccident

\* C9: handleAddAccident called without a pending click changes neither the
\* record list, the dialog flag, the draft, the pending click nor the map, and
\* emits no notification.
C9_NoPendingClickNoOp ==
    [][(addCalls' = addCalls + 1 /\ tempMarkerPosition = Null)
        => UNCHANGED <<accidents, showAddDialog, tempMarkerPosition, newAccident,
                       toasts, sourceFeatures, clusterClickListeners,
                       pointClickListeners>>]_vars

\* the handler ran without a pending click on an open dialog with a submittable draft
C9_Witness ==
    /\ addCalls = 1 /\ tempMarkerPosition = Null
    /\ showAddDialog /\ newAccident.description = <<"a">>
    /\ Len(accidents) = 4 /\ toasts = 1

\* C10: the board is never rendered while the page's token is empty, and the
\* token it is rendered with is non-empty and equal to its own trimmed value.
C10_BoardOnlyWithToken ==
    /\ mapboxToken = <<>> => ~mounted
    /\ mounted => (mapboxToken # <<>> /\ Trim(mapboxToken) = mapboxToken)

\* the gate has emitted a token and the board is rendered with it
C10_Witness ==
    /\ mounted /\ mapboxToken = <<"p">> /\ token = <<>> /\ Len(accidents) = 4

\* C11 (as claimed): every record's injuries count is an integer >= 0, whatever
\* text was entered in the injuries field before the submit.
C11_InjuriesNonNegative ==
    \A i \in DOMAIN accidents : accidents[i].injuries \in Nat

\* C12 (as claimed): on one map instance, after any number of record-list
\* changes, the 'accidents' source has one feature per record, the 'clusters'
\* and 'unclustered-point' layers have exactly one click listener each, and a
\* click on an individual point opens exactly one popup.
C12_SyncWithoutAccumulation ==
    mounted => /\ sourceFeatures = Len(accidents)
               /\ clusterClickListeners = 1
               /\ pointClickListeners = 1
               /\ PopupsPerPointClick = 1
====
